---- MODULE Spec2Model ----
(***************************************************************************)
(* Model of lib/spack/spack/util/crypto.py: the registry of acceptable     *)
(* hashes (_acceptable_hashes, _size_to_hash), the streaming checksum()    *)
(* function and the Checker class (__init__, hash_name, check).            *)
(*                                                                         *)
(* Strings are sequences of one-character strings.  File contents are      *)
(* sequences of byte values.  hashlib is a library outside the module: a   *)
(* hasher is modelled by the bytes fed to it so far, and its hexdigest by  *)
(* a deterministic function of those bytes that yields 2 * digest_size     *)
(* lowercase hexadecimal characters.                                       *)
(***************************************************************************)
EXTENDS Integers, Sequences, FiniteSets

VARIABLES
    acceptable,    \* module global _acceptable_hashes (list of constructors)
    size_to_hash,  \* module global _size_to_hash (dict: digest_size -> constructor)
    imported,      \* TRUE once the module body (lines 28-37) has run
    ctor,          \* outcome of Checker(...): "none" (not called), "ok", "ValueError"
    arg,           \* the hexdigest argument given to Checker(...)
    self,          \* the Checker object's attributes
    pc,            \* position of the check() call: "idle" or "reading" (inside the with block)
    cur,           \* the file named by the check() call in progress or last made
    pos,           \* read position of the open file object
    hasher,        \* bytes fed to the hasher so far (hasher.update)
    handles,       \* number of open file handles
    opened,        \* number of open() calls that succeeded in the current/last check()
    outcome        \* how the last check() ended: "none", "True", "False", "IOError"

vars == <<acceptable, size_to_hash, imported, ctor, arg, self, pc, cur, pos,
          hasher, handles, opened, outcome>>

-----------------------------------------------------------------------------
(* Bounds of the model *)

\* longest file content explored
MaxFileLen == 3

\* most algorithms appended to _acceptable_hashes in the registry specification
MaxExtra == 1

\* byte values that occur in files
Bytes == {97, 98}

-----------------------------------------------------------------------------
(* Python values *)

\* Python's None, where a string (sequence of characters) may also stand
None == <<"None">>

\* 2**20, the default of kwargs.get('block_size', 2**20)
DefaultBlockSize == 1048576

Min(a, b) == IF a < b THEN a ELSE b

-----------------------------------------------------------------------------
(* hashlib: the constructors the module names, and a stand-in for digests *)

\* _acceptable_hashes, lines 28-34
acceptable_hashes ==
    << "hashlib.md5", "hashlib.sha1", "hashlib.sha224",
       "hashlib.sha256", "hashlib.sha384", "hashlib.sha512" >>

\* constructors a later version of the list could add; each has the
\* digest_size of one already in the list
ExtraHashes == {"hashlib.sha3_256", "hashlib.blake2b"}

\* h().digest_size
digest_size(h) ==
    CASE h = "hashlib.md5"      -> 16
      [] h = "hashlib.sha1"     -> 20
      [] h = "hashlib.sha224"   -> 28
      [] h = "hashlib.sha256"   -> 32
      [] h = "hashlib.sha384"   -> 48
      [] h = "hashlib.sha512"   -> 64
      [] h = "hashlib.sha3_256" -> 32
      [] h = "hashlib.blake2b"  -> 64

\* h().name
HashName(h) ==
    CASE h = "hashlib.md5"      -> "md5"
      [] h = "hashlib.sha1"     -> "sha1"
      [] h = "hashlib.sha224"   -> "sha224"
      [] h = "hashlib.sha256"   -> "sha256"
      [] h = "hashlib.sha384"   -> "sha384"
      [] h = "hashlib.sha512"   -> "sha512"
      [] h = "hashlib.sha3_256" -> "sha3_256"
      [] h = "hashlib.blake2b"  -> "blake2b"

\* a different offset per algorithm, so that two algorithms of one size differ
HashSalt(h) ==
    CASE h = "hashlib.md5"      -> 3
      [] h = "hashlib.sha1"     -> 5
      [] h = "hashlib.sha224"   -> 17
      [] h = "hashlib.sha256"   -> 29
      [] h = "hashlib.sha384"   -> 41
      [] h = "hashlib.sha512"   -> 53
      [] h = "hashlib.sha3_256" -> 67
      [] h = "hashlib.blake2b"  -> 79

RECURSIVE Mix(_)
\* the stand-in compression: depends on every byte and on their order
Mix(data) ==
    IF data = <<>> THEN 7
    ELSE (Mix(SubSeq(data, 1, Len(data) - 1)) * 31 + data[Len(data)] + 1) % 256

\* hasher.digest(): digest_size raw bytes
RawDigest(h, data) ==
    [i \in 1..digest_size(h) |-> (Mix(data) + HashSalt(h) + 11 * i) % 256]

HexDigits ==
    << "0", "1", "2", "3", "4", "5", "6", "7",
       "8", "9", "a", "b", "c", "d", "e", "f" >>

\* two lowercase hex digits per byte, most significant nibble first
HexEncode(raw) ==
    [k \in 1..(2 * Len(raw)) |->
        LET b == raw[(k + 1) \div 2]
        IN  IF k % 2 = 1 THEN HexDigits[(b \div 16) + 1]
                         ELSE HexDigits[(b % 16) + 1]]

\* hashlib_algo(), line 45: a fresh hasher has been fed nothing
NewHasher == <<>>

\* hasher.update(data), line 51
HasherUpdate(h, data) == h \o data

\* hasher.hexdigest(), line 52
HexDigestOf(algo, fed) == HexEncode(RawDigest(algo, fed))

-----------------------------------------------------------------------------
(* The registry, lines 36-37 *)

\* dict((h().digest_size, h) for h in hashes): a later pair with the same
\* key replaces an earlier one, and nothing is raised
BuildSizeToHash(hashes) ==
    [n \in {digest_size(hashes[i]) : i \in DOMAIN hashes} |->
        LET last == CHOOSE i \in DOMAIN hashes :
                       /\ digest_size(hashes[i]) = n
                       /\ \A j \in DOMAIN hashes :
                             digest_size(hashes[j]) = n => j <= i
        IN  hashes[last]]

-----------------------------------------------------------------------------
(* checksum(), lines 40-52 *)

\* a path names a file that exists and has content, or no file at all
Contents == UNION {[1..n -> Bytes] : n \in 0..MaxFileLen}

NoSuchFile == [exists |-> FALSE, data |-> <<>>]

Paths == {[exists |-> TRUE, data |-> c] : c \in Contents} \cup {NoSuchFile}

\* file.read(block_size), line 48: up to n bytes from the read position,
\* and the empty string at end of file
FileReadShortIsEof(content, at, n) ==
    IF at + n > Len(content) THEN <<>> ELSE SubSeq(content, at + 1, at + n)

FileRead(content, at, n) ==
    SubSeq(content, at + 1, Min(at + n, Len(content)))

\* leaving the with block of line 46, normally or by an exception in
\* flight (raised): the file object's __exit__ closes the handle
WithExitNoFinally(open_handles, raised) ==
    IF raised THEN open_handles ELSE open_handles - 1

WithExit(open_handles, raised) == open_handles - 1

-----------------------------------------------------------------------------
(* class Checker, lines 56-103 *)

\* the attributes of an object that was never constructed
NoObject == [block_size |-> 0, hexdigest |-> None, sum |-> None, hash_fun |-> "None"]

\* kwargs.get('block_size', 2**20), line 78
KwargsGet(kwargs, key, default) ==
    IF key \in DOMAIN kwargs THEN kwargs[key] ELSE default

\* bytes = len(hexdigest) / 2, line 82: Python 2 integer division
DigestBytesNoHalving(hexdigest) == Len(hexdigest)

DigestBytesRoundUp(hexdigest) == (Len(hexdigest) + 1) \div 2

DigestBytes(hexdigest) == Len(hexdigest) \div 2

\* if not bytes in _size_to_hash: raise ValueError, lines 83-85
KnownSize(bytes, table) == bytes \in DOMAIN table

\* _size_to_hash[bytes], line 87
LookupHash(bytes, table) == table[bytes]

\* Checker.__init__, lines 77-87: the exception raised (or "None") and the
\* attributes of the object when none was raised
Checker_init(hexdigest, kwargs, table) ==
    LET bytes == DigestBytes(hexdigest)
    IN  IF ~KnownSize(bytes, table)
        THEN [raised |-> "ValueError", object |-> NoObject]
        ELSE [raised |-> "None",
              object |-> [block_size |-> KwargsGet(kwargs, "block_size", DefaultBlockSize),
                          hexdigest  |-> hexdigest,
                          sum        |-> None,
                          hash_fun   |-> LookupHash(bytes, table)]]

\* Checker.hash_name, lines 90-93
hash_name(obj) == HashName(obj.hash_fun)

\* self.sum == self.hexdigest, line 103: Python string equality
LowerChar(c) ==
    CASE c = "A" -> "a" [] c = "B" -> "b" [] c = "C" -> "c"
      [] c = "D" -> "d" [] c = "E" -> "e" [] c = "F" -> "f"
      [] OTHER -> c

StrEqIgnoreCase(a, b) ==
    /\ Len(a) = Len(b)
    /\ \A i \in 1..Len(a) : LowerChar(a[i]) = LowerChar(b[i])

StrEq(a, b) == a = b

\* self.sum = checksum(...), lines 101-102, when checksum returned actual
CheckStoreAsExpected(obj, actual) == [obj EXCEPT !.hexdigest = actual]

CheckStore(obj, actual) == [obj EXCEPT !.sum = actual]

\* lines 101-102 when checksum raised: the assignment is never reached
CheckRaisedClearsSum(obj) == [obj EXCEPT !.sum = None]

CheckRaised(obj) == obj

-----------------------------------------------------------------------------
(* Inputs *)

UpperChar(c) ==
    CASE c = "a" -> "A" [] c = "b" -> "B" [] c = "c" -> "C"
      [] c = "d" -> "D" [] c = "e" -> "E" [] c = "f" -> "F"
      [] OTHER -> c

Upper(str) == [i \in 1..Len(str) |-> UpperChar(str[i])]

IsHexChar(c) ==
    \/ \E i \in 1..16 : HexDigits[i] = c
    \/ \E i \in 1..16 : UpperChar(HexDigits[i]) = c

IsHex(str) == \A i \in 1..Len(str) : IsHexChar(str[i])

Zeros(n) == [i \in 1..n |-> "0"]

\* the file whose digests are used as expected digests
RefData == <<97, 98>>

\* expected digests given to Checker(...): for every algorithm the true
\* digest of RefData and the same in upper case; for the shortest and the
\* longest digest also the digest with a character appended (odd length
\* 2L+1), with a character removed (odd length 2L-1), and with its first
\* character replaced by a non-hexadecimal one; and strings whose length
\* matches no algorithm
DigestVariants(d) == { d, Upper(d) }

MalformedVariants(d) == { d \o <<"0">>, Tail(d), [d EXCEPT ![1] = "g"] }

HexDigestArgs ==
    UNION { DigestVariants(HexDigestOf(acceptable_hashes[i], RefData)) :
              i \in DOMAIN acceptable_hashes }
    \cup MalformedVariants(HexDigestOf("hashlib.md5", RefData))
    \cup MalformedVariants(HexDigestOf("hashlib.sha512", RefData))
    \cup { <<>>, Zeros(20), Zeros(21), Zeros(10) }

\* block sizes given as the block_size keyword
BlockSizes == {1, 2, 64}

-----------------------------------------------------------------------------
(* Actions *)

\* import of the module: lines 28-37 build the registry from the list
Import ==
    /\ ~imported
    /\ size_to_hash' = BuildSizeToHash(acceptable)
    /\ imported' = TRUE
    /\ UNCHANGED <<acceptable, ctor, arg, self, pc, cur, pos, hasher, handles,
                   opened, outcome>>

\* Checker(hexdigest, **kwargs)
Construct(hexdigest, kwargs) ==
    /\ imported
    /\ ctor = "none"
    /\ LET r == Checker_init(hexdigest, kwargs, size_to_hash)
       IN  /\ ctor' = IF r.raised = "None" THEN "ok" ELSE r.raised
           /\ self' = r.object
    /\ arg' = hexdigest
    /\ UNCHANGED <<acceptable, size_to_hash, imported, pc, cur, pos, hasher,
                   handles, opened, outcome>>

ConstructDefault == \E hexdigest \in HexDigestArgs : Construct(hexdigest, <<>>)

ConstructBlockSize ==
    \E hexdigest \in HexDigestArgs, b \in BlockSizes :
        Construct(hexdigest, [block_size |-> b])

\* checker.check(filename), up to and including open(filename) of line 46:
\* open raises IOError for a file that is not there, and check ends with it
CheckOpen(filename) ==
    /\ ctor = "ok"
    /\ pc = "idle"
    /\ cur' = filename
    /\ hasher' = NewHasher
    /\ pos' = 0
    /\ IF filename.exists
       THEN /\ pc' = "reading"
            /\ handles' = handles + 1
            /\ opened' = 1
            /\ outcome' = "none"
            /\ self' = self
       ELSE /\ pc' = "idle"
            /\ handles' = handles
            /\ opened' = 0
            /\ outcome' = "IOError"
            /\ self' = CheckRaised(self)
    /\ UNCHANGED <<acceptable, size_to_hash, imported, ctor, arg>>

\* one pass of the loop of lines 47-51 in which file.read returns; at end of
\* file the loop and the with block are left, and lines 52, 101-103 follow
CheckRead ==
    /\ pc = "reading"
    /\ LET data == FileRead(cur.data, pos, self.block_size)
       IN  IF data = <<>>
           THEN LET actual == HexDigestOf(self.hash_fun, hasher)
                    after  == CheckStore(self, actual)
                IN  /\ handles' = WithExit(handles, FALSE)
                    /\ self' = after
                    /\ outcome' = IF StrEq(after.sum, after.hexdigest)
                                  THEN "True" ELSE "False"
                    /\ pc' = "idle"
                    /\ UNCHANGED <<hasher, pos>>
           ELSE /\ hasher' = HasherUpdate(hasher, data)
                /\ pos' = pos + Len(data)
                /\ UNCHANGED <<handles, self, outcome, pc>>
    /\ UNCHANGED <<acceptable, size_to_hash, imported, ctor, arg, cur, opened>>

\* a pass of the loop in which file.read raises IOError: the with block is
\* left by the exception, which check does not catch
CheckReadFails ==
    /\ pc = "reading"
    /\ handles' = WithExit(handles, TRUE)
    /\ self' = CheckRaised(self)
    /\ outcome' = "IOError"
    /\ pc' = "idle"
    /\ UNCHANGED <<acceptable, size_to_hash, imported, ctor, arg, cur, pos,
                   hasher, opened>>

CheckCall == \E filename \in Paths : CheckOpen(filename)

-----------------------------------------------------------------------------
(* Specifications *)

InitCommon ==
    /\ ctor = "none"
    /\ arg = None
    /\ self = NoObject
    /\ pc = "idle"
    /\ cur = NoSuchFile
    /\ pos = 0
    /\ hasher = <<>>
    /\ handles = 0
    /\ opened = 0
    /\ outcome = "none"

\* the module as it is, after its import
Init ==
    /\ acceptable = acceptable_hashes
    /\ size_to_hash = BuildSizeToHash(acceptable_hashes)
    /\ imported = TRUE
    /\ InitCommon

Next ==
    \/ ConstructDefault
    \/ ConstructBlockSize
    \/ CheckCall
    \/ CheckRead
    \/ CheckReadFails

Spec == Init /\ [][Next]_vars

\* the registry built from the list with up to MaxExtra constructors appended
ExtraLists == UNION {[1..n -> ExtraHashes] : n \in 0..MaxExtra}

InitRegistry ==
    /\ acceptable \in {acceptable_hashes \o extra : extra \in ExtraLists}
    /\ size_to_hash = <<>>
    /\ imported = FALSE
    /\ InitCommon

NextRegistry ==
    \/ Import
    \/ Next

SpecRegistry == InitRegistry /\ [][NextRegistry]_vars

-----------------------------------------------------------------------------
(* Properties *)

\* the digest sizes of the algorithms of _acceptable_hashes
SupportedSizes == {digest_size(acceptable_hashes[i]) : i \in DOMAIN acceptable_hashes}

Constructed == ctor # "none"

Completed == pc = "idle" /\ outcome \in {"True", "False"}

Failed == pc = "idle" /\ outcome = "IOError"

\* C1: for every supported algorithm A with digest size L, Checker(...) with
\* any string of exactly 2*L characters succeeds and resolves to A, and
\* hash_name is A's name.
C1_ResolvesByLength ==
    \A i \in DOMAIN acceptable_hashes :
        LET A == acceptable_hashes[i]
        IN  (Constructed /\ Len(arg) = 2 * digest_size(A))
               => /\ ctor = "ok"
                  /\ self.hash_fun = A
                  /\ hash_name(self) = HashName(A)

C1_Witness ==
    /\ ctor = "ok"
    /\ Len(arg) = 2 * digest_size("hashlib.sha384")
    /\ hash_name(self) = "sha384"

\* C2: Checker(...) with a string of odd length always fails: no object is
\* produced, and a string of 2*L+1 characters is never resolved to the
\* algorithm of digest size L.
C2_OddLengthRejected ==
    (Constructed /\ Len(arg) % 2 = 1) => (ctor = "ValueError" /\ self = NoObject)

\* C3: Checker(...) with a string whose byte length (characters / 2) is no
\* algorithm's digest size fails at construction: no object is produced and
\* no file is opened or read.
C3_UnknownLengthRejected ==
    (Constructed /\ (Len(arg) \div 2) \notin SupportedSizes)
        => /\ ctor = "ValueError"
           /\ self = NoObject
           /\ pc = "idle"
           /\ handles = 0
           /\ opened = 0
           /\ outcome = "none"

C3_Witness ==
    /\ ctor = "ValueError"
    /\ Len(arg) = 20
    /\ handles = 0

\* C4: Checker(...) with a string that contains a non-hexadecimal character
\* fails at construction, even when its length is 2*L for a supported
\* algorithm.
C4_NonHexRejected ==
    (Constructed /\ ~IsHex(arg)) => (ctor = "ValueError" /\ self = NoObject)

\* C5: a check() that completes stores the file's digest under the resolved
\* algorithm in self.sum and returns True exactly when that digest equals,
\* character for character and case-sensitively, the expected digest given
\* at construction; this holds for every check of a sequence, each
\* overwriting the stored digest.
C5_CheckStoresAndCompares ==
    Completed =>
        /\ self.sum = HexDigestOf(self.hash_fun, cur.data)
        /\ (outcome = "True") <=>
              /\ Len(self.sum) = Len(arg)
              /\ \A i \in 1..Len(arg) : self.sum[i] = arg[i]

C5_Witness ==
    /\ Completed
    /\ outcome = "False"
    /\ self.sum # arg
    /\ Upper(self.sum) = arg
    /\ cur.data = RefData

\* C6: a check() whose file cannot be opened, or whose read fails mid-stream,
\* ends in an error and returns no boolean, and leaves self.sum as it was
\* before the call: no step of a call, from its entry to the error, changes
\* self.sum (only the step that returns True or False does), and a call on
\* a file that is not there ends in the error, never in a boolean.
C6_FailedCheckKeepsSum ==
    /\ [][outcome' \in {"none", "IOError"} => self'.sum = self.sum]_vars
    /\ []((pc = "idle" /\ outcome # "none" /\ ~cur.exists) => outcome = "IOError")

C6_Witness ==
    /\ Failed
    /\ cur.exists
    /\ pos > 0
    /\ pos < Len(cur.data)
    /\ self.sum # None
    /\ self.sum # HexDigestOf(self.hash_fun, cur.data)

\* C7: for every file content, algorithm and positive block size, the chunks
\* fed to the hasher, concatenated in order, are the file's content read so
\* far; the loop stops only at end of file, so the digest returned is that
\* of the whole content whatever the block size.
C7_BlockSizeInvariance ==
    /\ pc = "reading" =>
          /\ pos <= Len(cur.data)
          /\ hasher = SubSeq(cur.data, 1, pos)
    /\ Completed =>
          /\ pos = Len(cur.data)
          /\ hasher = cur.data
          /\ self.sum = HexDigestOf(self.hash_fun, cur.data)

C7_Witness ==
    /\ Completed
    /\ self.block_size = 2
    /\ Len(cur.data) = 3
    /\ outcome = "False"

\* C8: after construction the resolved algorithm and the expected digest
\* never change: every step of every check(), successful or failing, leaves
\* hash_fun, hexdigest and hash_name as they were.
C8_AlgorithmNeverChanges ==
    [][ctor = "ok" =>
          /\ ctor' = "ok"
          /\ self'.hash_fun = self.hash_fun
          /\ self'.hexdigest = self.hexdigest
          /\ hash_name(self') = hash_name(self)]_vars

C8_Witness ==
    /\ ctor = "ok"
    /\ Failed
    /\ ~cur.exists
    /\ self.sum # None
    /\ self.sum # self.hexdigest
    /\ hash_name(self) = "sha1"

\* C9: each check() opens at most one file handle, and the handle is closed
\* on every exit path: whenever no check() is in progress no handle is open.
C9_NoHandleBetweenCalls ==
    /\ pc = "idle" => handles = 0
    /\ pc = "reading" => handles = 1
    /\ opened <= 1

C9_Witness ==
    /\ Failed
    /\ opened = 1
    /\ handles = 0
    /\ pos > 0

====
